---- MODULE Spec2Model ----
(***************************************************************************)
(* Model of the NEST fluorescence tools:                                   *)
(*   analyze_fluorescence.py  parse_filename, time_point_to_string,        *)
(*                            calculate_robust_mean, process_circle_images *)
(*   circle_crop.py           create_circular_mask, crop_circle_from_image *)
(*                                                                         *)
(* A Python str is a sequence of one-character strings; a greyscale image  *)
(* is a sequence of rows of pixel values (crop) or the flat sequence of    *)
(* its pixels (robust mean, which only reads the multiset of pixels).      *)
(* A mean is the exact fraction num/den in lowest terms.                   *)
(***************************************************************************)
EXTENDS Integers, Sequences, FiniteSets, TLC

VARIABLES
    \* process_circle_images
    image_files,   \* glob.glob(...) : the file names, in the order glob gave
    disk,          \* file name -> what cv2.imread finds there
    i,             \* number of loop iterations done
    results,       \* the list `results`
    log,           \* everything printed so far
    df_sorted,     \* the rows written to fluorescence_analysis.csv
    pc,            \* "start" | "loop" | "done" | "returned" | "raised" | "idle"
    \* parse_filename
    pid,           \* the filename argument
    pres,          \* the returned value, or Pending
    pprinted,      \* what the call printed
    \* crop_circle_from_image
    corig,         \* the image first given to the extractor
    cimg,          \* the image at image_path
    cout,          \* the outcome of the last pass, or Pending
    cfirst,        \* the outcome of the first pass, or Pending
    cpass,         \* number of passes made
    \* calculate_robust_mean
    morig,         \* the first image given to the estimator
    mimg,          \* the image at image_path
    mres,          \* the returned value, or Pending
    mbase,         \* the value returned for the first image
    mdiag          \* what the last call printed

vars == <<image_files, disk, i, results, log, df_sorted, pc, pid, pres, pprinted,
          corig, cimg, cout, cfirst, cpass, morig, mimg, mres, mbase, mdiag>>

batchVars == <<image_files, disk, i, results, log, df_sorted, pc>>
parseVars == <<pid, pres, pprinted>>
cropVars  == <<corig, cimg, cout, cfirst, cpass>>
meanVars  == <<morig, mimg, mres, mbase, mdiag>>

Pending == [kind |-> "pending"]
None    == [kind |-> "None"]

Min2(a, b) == IF a <= b THEN a ELSE b
Min4(a, b, c, d) == Min2(Min2(a, b), Min2(c, d))

-----------------------------------------------------------------------------
(* Python str                                                              *)

\* ord(c) of the characters the model uses
Ord(c) ==
    CASE c = "-" -> 45 [] c = "." -> 46
      [] c = "0" -> 48 [] c = "1" -> 49 [] c = "2" -> 50 [] c = "3" -> 51
      [] c = "4" -> 52 [] c = "5" -> 53 [] c = "6" -> 54 [] c = "7" -> 55
      [] c = "8" -> 56 [] c = "9" -> 57 [] c = ":" -> 58
      [] c = "A" -> 65 [] c = "C" -> 67 [] c = "S" -> 83 [] c = "T" -> 84
      [] c = "X" -> 88 [] c = "_" -> 95
      [] c = "a" -> 97 [] c = "b" -> 98 [] c = "e" -> 101 [] c = "f" -> 102
      [] c = "g" -> 103 [] c = "i" -> 105 [] c = "m" -> 109 [] c = "n" -> 110
      [] c = "r" -> 114 [] c = "s" -> 115 [] c = "t" -> 116 [] c = "x" -> 120

\* str.__lt__ : lexicographic on code points, a proper prefix is smaller
RECURSIVE StrLess(_, _)
StrLess(s, t) ==
    IF t = <<>> THEN FALSE
    ELSE IF s = <<>> THEN TRUE
    ELSE IF Head(s) # Head(t) THEN Ord(Head(s)) < Ord(Head(t))
    ELSE StrLess(Tail(s), Tail(t))

StartsWith(s, p) == Len(s) >= Len(p) /\ SubSeq(s, 1, Len(p)) = p

\* s.replace(old, ''), scanning left to right
RECURSIVE Remove(_, _)
Remove(s, old) ==
    IF s = <<>> THEN <<>>
    ELSE IF StartsWith(s, old) THEN Remove(SubSeq(s, Len(old) + 1, Len(s)), old)
    ELSE <<Head(s)>> \o Remove(Tail(s), old)

Digits == <<"0", "1", "2", "3", "4", "5", "6", "7", "8", "9">>
IsDigit(c) == \E d \in 1..Len(Digits) : Digits[d] = c
DigitValue(c) == (CHOOSE d \in 1..Len(Digits) : Digits[d] = c) - 1

\* int(s) for a run of decimal digits
RECURSIVE ParseInt(_)
ParseInt(s) ==
    IF s = <<>> THEN 0
    ELSE 10 * ParseInt(SubSeq(s, 1, Len(s) - 1)) + DigitValue(s[Len(s)])

\* str(n), n >= 0
RECURSIVE NatToStr(_)
NatToStr(n) ==
    IF n < 10 THEN <<Digits[n + 1]>>
    ELSE NatToStr(n \div 10) \o <<Digits[(n % 10) + 1]>>

\* format(n, "d")
IntToStr(n) == IF n < 0 THEN <<"-">> \o NatToStr(-n) ELSE NatToStr(n)

\* format(n, "02d") : zero-padded to width 2
Pad2(n) == IF 0 <= n /\ n < 10 THEN <<"0">> \o NatToStr(n) ELSE IntToStr(n)

-----------------------------------------------------------------------------
(* re.match : the pattern has to match at the start of the string; what    *)
(* follows the match is not looked at.  \d+ is greedy, and every \d+ of    *)
(* the two patterns is followed by a non-digit or by the pattern's end, so *)
(* the match, when there is one, takes each maximal run of digits.         *)

\* length of the longest run of digits at the start of s
RECURSIVE DigitRun(_)
DigitRun(s) ==
    IF s # <<>> /\ IsDigit(Head(s)) THEN 1 + DigitRun(Tail(s)) ELSE 0

Drop(s, n) == SubSeq(s, n + 1, Len(s))
Take(s, n) == SubSeq(s, 1, n)

\* a literal piece of a pattern: the rest of s behind it, or None
MatchLit(s, lit) == IF StartsWith(s, lit) THEN [kind |-> "ok", rest |-> Drop(s, Len(lit))] ELSE None

\* (\d+) : the group and the rest of s behind it, or None
MatchDigits(s) ==
    LET n == DigitRun(s)
    IN  IF n = 0 THEN None ELSE [kind |-> "ok", group |-> Take(s, n), rest |-> Drop(s, n)]

\* re.match(r'T(\d+)_SA_(\d+)_(\d+)', s) : the three groups, or None
sa_match(s) ==
    LET a == MatchLit(s, <<"T">>) IN
    IF a = None THEN None ELSE
    LET g1 == MatchDigits(a.rest) IN
    IF g1 = None THEN None ELSE
    LET b == MatchLit(g1.rest, <<"_", "S", "A", "_">>) IN
    IF b = None THEN None ELSE
    LET g2 == MatchDigits(b.rest) IN
    IF g2 = None THEN None ELSE
    LET c == MatchLit(g2.rest, <<"_">>) IN
    IF c = None THEN None ELSE
    LET g3 == MatchDigits(c.rest) IN
    IF g3 = None THEN None ELSE
    [kind |-> "match", groups |-> <<g1.group, g2.group, g3.group>>]

\* re.match(r'T(\d+)_Ctr_(\d+)', s) : the two groups, or None
ctr_match(s) ==
    LET a == MatchLit(s, <<"T">>) IN
    IF a = None THEN None ELSE
    LET g1 == MatchDigits(a.rest) IN
    IF g1 = None THEN None ELSE
    LET b == MatchLit(g1.rest, <<"_", "C", "t", "r", "_">>) IN
    IF b = None THEN None ELSE
    LET g2 == MatchDigits(b.rest) IN
    IF g2 = None THEN None ELSE
    [kind |-> "match", groups |-> <<g1.group, g2.group>>]

SA  == <<"S", "A">>
Ctr == <<"C", "t", "r">>
DotTif == <<".", "t", "i", "f">>

\* parse_filename with the dose and the replicate read from each other's group
parse_filename_swapped(filename) ==
    LET base_name == Remove(filename, DotTif)
        sa  == sa_match(base_name)
        ctr == ctr_match(base_name)
    IN  IF sa # None
        THEN [kind |-> "info",
              time_point  |-> ParseInt(sa.groups[1]),
              sample_type |-> SA,
              cfu         |-> ParseInt(sa.groups[3]),
              replicate   |-> ParseInt(sa.groups[2])]
        ELSE IF ctr # None
        THEN [kind |-> "info",
              time_point  |-> ParseInt(ctr.groups[1]),
              sample_type |-> Ctr,
              cfu         |-> 0,
              replicate   |-> ParseInt(ctr.groups[2])]
        ELSE None

\* parse_filename(filename) : the dict, or None
parse_filename(filename) ==
    LET base_name == Remove(filename, DotTif)
        sa  == sa_match(base_name)
        ctr == ctr_match(base_name)
    IN  IF sa # None
        THEN [kind |-> "info",
              time_point  |-> ParseInt(sa.groups[1]),
              sample_type |-> SA,
              cfu         |-> ParseInt(sa.groups[2]),
              replicate   |-> ParseInt(sa.groups[3])]
        ELSE IF ctr # None
        THEN [kind |-> "info",
              time_point  |-> ParseInt(ctr.groups[1]),
              sample_type |-> Ctr,
              cfu         |-> 0,
              replicate   |-> ParseInt(ctr.groups[2])]
        ELSE None

\* what parse_filename prints
parse_diag(filename) ==
    IF parse_filename(filename) = None
    THEN <<[msg |-> "Could not recognize filename pattern", file |-> filename]>>
    ELSE <<>>

\* time_point_to_string counting the half hours from time point 0
time_point_to_string_from_zero(time_point) ==
    LET minutes == time_point * 30
        hours   == minutes \div 60
        mins    == minutes % 60
    IN  IntToStr(hours) \o <<":">> \o Pad2(mins)

\* time_point_to_string(time_point)
time_point_to_string(time_point) ==
    LET minutes == (time_point - 1) * 30
        hours   == minutes \div 60
        mins    == minutes % 60
    IN  IntToStr(hours) \o <<":">> \o Pad2(mins)

-----------------------------------------------------------------------------
(* calculate_robust_mean                                                   *)

\* cv2.imread found no image it can decode (it returns None)
Undecodable == [kind |-> "undecodable"]

RECURSIVE Sum(_)
Sum(s) == IF s = <<>> THEN 0 ELSE Head(s) + Sum(Tail(s))

RECURSIVE Gcd(_, _)
Gcd(a, b) == IF b = 0 THEN a ELSE Gcd(b, a % b)

\* np.mean of a non-empty array, as an exact fraction in lowest terms
Mean(s) ==
    LET g == Gcd(Sum(s), Len(s))
    IN  [kind |-> "value", num |-> Sum(s) \div g, den |-> Len(s) \div g]

\* np.sort
RECURSIVE Insert(_, _)
Insert(x, s) ==
    IF s = <<>> THEN <<x>>
    ELSE IF x <= Head(s) THEN <<x>> \o s
    ELSE <<Head(s)>> \o Insert(x, Tail(s))

RECURSIVE SortInts(_)
SortInts(s) == IF s = <<>> THEN <<>> ELSE Insert(Head(s), SortInts(Tail(s)))

\* 100 * np.percentile(a, q) for a non-empty array, method 'linear': the value
\* at the virtual index (n-1)*q/100 of the sorted array, interpolated between
\* its two neighbours.  Scaled by 100 to stay in the integers.
percentile_x100(a, q) ==
    LET sorted == SortInts(a)
        n      == Len(a)
        below  == ((n - 1) * q) \div 100
        frac   == ((n - 1) * q) % 100
        lo     == sorted[below + 1]
        hi     == IF below + 2 <= n THEN sorted[below + 2] ELSE lo
    IN  100 * lo + frac * (hi - lo)

\* the pixels with the zero ones left in
all_pixels(img) == img

\* img[img > 0]
non_zero_pixels(img) == SelectSeq(img, LAMBDA v : v > 0)

\* non_zero_pixels[(non_zero_pixels >= p25) & (non_zero_pixels <= p75)]
filtered_pixels(nz) ==
    LET p25 == percentile_x100(nz, 25)
        p75 == percentile_x100(nz, 75)
    IN  SelectSeq(nz, LAMBDA v : 100 * v >= p25 /\ 100 * v <= p75)

\* img.flatten() : the pixels row by row
RECURSIVE Flatten(_)
Flatten(rows) == IF rows = <<>> THEN <<>> ELSE Head(rows) \o Flatten(Tail(rows))

\* calculate_robust_mean without the check for an empty set of non-zero
\* pixels: a number comes back for an image that has none
calculate_robust_mean_unchecked(img) ==
    IF img = Undecodable THEN None
    ELSE LET nz == non_zero_pixels(Flatten(img.rows)) IN
         IF Len(nz) = 0 THEN [kind |-> "value", num |-> 0, den |-> 1]
         ELSE LET f == filtered_pixels(nz) IN
              IF Len(f) = 0 THEN Mean(nz) ELSE Mean(f)

\* calculate_robust_mean failing, instead of falling back, when the filter
\* leaves no pixel
calculate_robust_mean_no_fallback(img) ==
    IF img = Undecodable THEN None
    ELSE LET nz == non_zero_pixels(Flatten(img.rows)) IN
         IF Len(nz) = 0 THEN None
         ELSE LET f == filtered_pixels(nz) IN
              IF Len(f) = 0 THEN None ELSE Mean(f)

\* calculate_robust_mean(image_path), img being what cv2.imread finds at
\* image_path (single-channel: the colour conversion is not modelled)
calculate_robust_mean(img) ==
    IF img = Undecodable THEN None
    ELSE LET nz == non_zero_pixels(Flatten(img.rows)) IN
         IF Len(nz) = 0 THEN None
         ELSE LET f == filtered_pixels(nz) IN
              IF Len(f) = 0 THEN Mean(nz) ELSE Mean(f)

\* calculate_robust_mean printing nothing when there is no valid pixel
robust_diag_quiet(path, img) ==
    IF img = Undecodable THEN <<[msg |-> "Could not load image", file |-> path]>>
    ELSE LET nz == non_zero_pixels(Flatten(img.rows)) IN
         IF Len(nz) = 0 THEN <<>>
         ELSE IF Len(filtered_pixels(nz)) = 0
              THEN <<[msg |-> "No pixels left after filtering", file |-> path]>>
              ELSE <<>>

\* what calculate_robust_mean prints
robust_diag(path, img) ==
    IF img = Undecodable THEN <<[msg |-> "Could not load image", file |-> path]>>
    ELSE LET nz == non_zero_pixels(Flatten(img.rows)) IN
         IF Len(nz) = 0 THEN <<[msg |-> "No valid pixels found", file |-> path]>>
         ELSE IF Len(filtered_pixels(nz)) = 0
              THEN <<[msg |-> "No pixels left after filtering", file |-> path]>>
              ELSE <<>>

\* round(mean_value, 2), in hundredths: the nearest one, a tie to the even one
round2(m) ==
    LET q == (100 * m.num) \div m.den
        r == (100 * m.num) % m.den
    IN  IF 2 * r < m.den THEN q
        ELSE IF 2 * r > m.den THEN q + 1
        ELSE IF q % 2 = 0 THEN q ELSE q + 1

-----------------------------------------------------------------------------
(* circle_crop.py                                                          *)

Height(rows) == Len(rows)
Width(rows)  == IF rows = <<>> THEN 0 ELSE Len(rows[1])

\* s[a:b] of Python, for a sequence s
PySlice(s, a, b) ==
    LET n  == Len(s)
        lo == IF a < 0 THEN (IF a + n < 0 THEN 0 ELSE a + n) ELSE Min2(a, n)
        hi == IF b < 0 THEN (IF b + n < 0 THEN 0 ELSE b + n) ELSE Min2(b, n)
    IN  SubSeq(s, lo + 1, hi)

\* create_circular_mask with dist_from_center < radius
create_circular_mask_strict(h, w, center, radius) ==
    [y1 \in 1..h |-> [x1 \in 1..w |->
        ((x1 - 1) - center[1]) * ((x1 - 1) - center[1])
      + ((y1 - 1) - center[2]) * ((y1 - 1) - center[2]) < radius * radius]]

\* create_circular_mask(h, w, center, radius), both center and radius given
\* as crop_circle_from_image gives them: mask[y+1][x+1] says whether (x, y)
\* is inside.  np.sqrt(d2) <= radius, for integers d2 and radius >= 0, is
\* d2 <= radius * radius.
create_circular_mask(h, w, center, radius) ==
    [y1 \in 1..h |-> [x1 \in 1..w |->
        ((x1 - 1) - center[1]) * ((x1 - 1) - center[1])
      + ((y1 - 1) - center[2]) * ((y1 - 1) - center[2]) <= radius * radius]]

\* the centre taken as the middle pixel: (w - 1) // 2, (h - 1) // 2
crop_center_low(h, w) == <<(w - 1) \div 2, (h - 1) \div 2>>

\* center_x, center_y = w // 2, h // 2
crop_center(h, w) == <<w \div 2, h \div 2>>

\* radius = min(center_x, center_y, w - center_x, h - center_y)
crop_radius(h, w, center) ==
    Min4(center[1], center[2], w - center[1], h - center[2])

\* masked_img = img.copy(); masked_img[~mask] = 0
apply_mask(rows, mask) ==
    [y1 \in 1..Height(rows) |-> [x1 \in 1..Width(rows) |->
        IF mask[y1][x1] THEN rows[y1][x1] ELSE 0]]

\* masked_img[crop_y1:crop_y2, crop_x1:crop_x2]
crop_box(rows, x1, y1, x2, y2) ==
    LET band == PySlice(rows, y1, y2)
    IN  [k \in 1..Len(band) |-> PySlice(band[k], x1, x2)]

\* crop_circle_from_image(image_path, output_path), img being what cv2.imread
\* finds at image_path: the value returned and the image given to cv2.imwrite
crop_circle_from_image(img) ==
    IF img = Undecodable
    THEN [ok |-> FALSE, written |-> Pending,
          printed |-> <<[msg |-> "Could not load image"]>>]
    ELSE LET h      == Height(img.rows)
             w      == Width(img.rows)
             center == crop_center(h, w)
             radius == crop_radius(h, w, center)
             mask   == create_circular_mask(h, w, center, radius)
             masked == apply_mask(img.rows, mask)
             crop   == crop_box(masked, center[1] - radius, center[2] - radius,
                                        center[1] + radius, center[2] + radius)
         IN  [ok |-> TRUE, written |-> [kind |-> "image", rows |-> crop],
              printed |-> <<>>]

-----------------------------------------------------------------------------
(* process_circle_images                                                   *)

ProgressEvery == 50
HeadRows      == 10

\* the loop body for one file (n is the 1-based index, total the number of
\* files): the record appended, if any, and what is printed
process_source(filename, img, n, total) ==
    LET file_info  == parse_filename(filename)
        mean_value == calculate_robust_mean(img)
    IN  IF file_info = None
        THEN [appended |-> <<>>, printed |-> parse_diag(filename)]
        ELSE IF mean_value = None
        THEN [appended |-> <<>>, printed |-> robust_diag(filename, img)]
        ELSE [appended |->
                <<[filename       |-> filename,
                   time_str       |-> time_point_to_string(file_info.time_point),
                   sample_type    |-> file_info.sample_type,
                   cfu            |-> file_info.cfu,
                   replicate      |-> file_info.replicate,
                   mean_intensity |-> round2(mean_value)]>>,
              printed |->
                robust_diag(filename, img)
                \o (IF n % ProgressEvery = 0
                    THEN <<[msg |-> "Progress", n |-> n, total |-> total]>>
                    ELSE <<>>)]

\* the order with the time labels compared as times of day: the shorter
\* label first, labels of one length as strings
RowLess_by_clock(a, b) ==
    IF a.time_str # b.time_str
    THEN IF Len(a.time_str) # Len(b.time_str)
         THEN Len(a.time_str) < Len(b.time_str)
         ELSE StrLess(a.time_str, b.time_str)
    ELSE IF a.sample_type # b.sample_type THEN StrLess(a.sample_type, b.sample_type)
    ELSE IF a.cfu # b.cfu THEN a.cfu < b.cfu
    ELSE a.replicate < b.replicate

\* the order of sort_values(['time_str', 'sample_type', 'cfu', 'replicate']):
\* the strings by str.__lt__, the integers by <, a later column looked at
\* only when the earlier ones are equal
RowLess(a, b) ==
    IF a.time_str # b.time_str THEN StrLess(a.time_str, b.time_str)
    ELSE IF a.sample_type # b.sample_type THEN StrLess(a.sample_type, b.sample_type)
    ELSE IF a.cfu # b.cfu THEN a.cfu < b.cfu
    ELSE a.replicate < b.replicate

\* a row put in front of the rows of its own key: equal keys end up reversed
RECURSIVE sort_insert_before_equal(_, _)
sort_insert_before_equal(row, rows) ==
    IF rows = <<>> THEN <<row>>
    ELSE IF ~RowLess(Head(rows), row) THEN <<row>> \o rows
    ELSE <<Head(rows)>> \o sort_insert_before_equal(row, Tail(rows))

\* a row put into sorted rows behind every row that is not greater: pandas
\* sorts several columns with a stable lexsort, equal keys keep their order
RECURSIVE sort_insert(_, _)
sort_insert(row, rows) ==
    IF rows = <<>> THEN <<row>>
    ELSE IF RowLess(row, Head(rows)) THEN <<row>> \o rows
    ELSE <<Head(rows)>> \o sort_insert(row, Tail(rows))

\* df.sort_values([...]).reset_index(drop=True)
RECURSIVE sort_values(_)
sort_values(rows) ==
    IF rows = <<>> THEN <<>>
    ELSE sort_insert(rows[Len(rows)], sort_values(SubSeq(rows, 1, Len(rows) - 1)))

\* df['sample_type'].value_counts() : the types that occur, with their numbers of rows
sample_type_counts(rows) ==
    {<<v, Cardinality({k \in 1..Len(rows) : rows[k].sample_type = v})>> :
        v \in {rows[k].sample_type : k \in 1..Len(rows)}}

\* df['cfu'].value_counts() : the doses that occur, with their numbers of rows
cfu_counts(rows) ==
    {<<v, Cardinality({k \in 1..Len(rows) : rows[k].cfu = v})>> :
        v \in {rows[k].cfu : k \in 1..Len(rows)}}

\* what is printed once the table is written
final_report(res, df) ==
    LET sa_data == SelectSeq(df, LAMBDA r : r.sample_type = SA)
    IN  <<[msg |-> "Analysis complete!"],
          [msg |-> "Processed images", n |-> Len(res)],
          [msg |-> "Saved to"],
          [msg |-> "CSV file size", n |-> Len(df)],
          [msg |-> "Sample Results", rows |-> PySlice(df, 0, HeadRows)],
          [msg |-> "Count by Sample Type",
           counts |-> sample_type_counts(df)],
          [msg |-> "CFU Count (SA only)"]>>
        \o (IF Len(sa_data) > 0
            THEN <<[msg |-> "CFU counts", counts |-> cfu_counts(sa_data)]>>
            ELSE <<>>)

-----------------------------------------------------------------------------
(* The states of the parts a specification leaves alone                    *)

IdleBatch ==
    /\ image_files = <<>> /\ disk = <<>> /\ i = 0 /\ results = <<>>
    /\ log = <<>> /\ df_sorted = <<>> /\ pc = "idle"
IdleParse == pid = <<>> /\ pres = Pending /\ pprinted = <<>>
IdleCrop ==
    /\ corig = Undecodable /\ cimg = Undecodable /\ cout = Pending
    /\ cfirst = Pending /\ cpass = 0
IdleMean ==
    morig = Undecodable /\ mimg = Undecodable /\ mres = Pending /\ mbase = Pending /\ mdiag = <<>>

-----------------------------------------------------------------------------
(* process_circle_images over the files of img/circle                      *)

MaxSources == 3

T04_SA_1_1_tif == <<"T", "0", "4", "_", "S", "A", "_", "1", "_", "1">> \o DotTif
T4_SA_1_1_tif  == <<"T", "4", "_", "S", "A", "_", "1", "_", "1">> \o DotTif
T4_Ctr_2_tif   == <<"T", "4", "_", "C", "t", "r", "_", "2">> \o DotTif
T21_Ctr_1_tif  == <<"T", "2", "1", "_", "C", "t", "r", "_", "1">> \o DotTif
garbage_tif    == <<"g", "a", "r", "b", "a", "g", "e", "_", "n", "a", "m", "e">> \o DotTif

\* the image of one row of pixels
OneRow(px) == [kind |-> "image", rows |-> <<px>>]

Range(f) == {f[k] : k \in DOMAIN f}

\* the names a file of the directory may have
FileNames == {T04_SA_1_1_tif, T4_SA_1_1_tif, T4_Ctr_2_tif, T21_Ctr_1_tif, garbage_tif}

\* what a file of the directory may hold
FileImages ==
    {Undecodable, OneRow(<<0, 0>>), OneRow(<<1, 4>>), OneRow(<<0, 1, 2, 4>>)}

\* the sequences without repetition of at most n members of S
RECURSIVE Listings(_, _)
Listings(S, n) ==
    IF n = 0 THEN {<<>>}
    ELSE LET shorter == Listings(S, n - 1)
         IN  shorter \cup
             {Append(q, v) : q \in {t \in shorter : Len(t) = n - 1}, v \in S}

Init ==
    /\ image_files \in {q \in Listings(FileNames, MaxSources) :
                            Cardinality(Range(q)) = Len(q)}
    /\ disk \in [Range(image_files) -> FileImages]
    /\ i = 0 /\ results = <<>> /\ log = <<>> /\ df_sorted = <<>> /\ pc = "start"
    /\ IdleParse /\ IdleCrop /\ IdleMean

\* if not image_files: print("No images to process."); return
NoImages ==
    /\ pc = "start" /\ image_files = <<>>
    /\ log' = Append(log, [msg |-> "No images to process."])
    /\ pc' = "returned"
    /\ UNCHANGED <<image_files, disk, i, results, df_sorted, parseVars, cropVars, meanVars>>

\* print(f"Analyzing {len(image_files)} images in total..."); results = []
Analyze ==
    /\ pc = "start" /\ image_files # <<>>
    /\ log' = Append(log, [msg |-> "Analyzing", n |-> Len(image_files)])
    /\ results' = <<>>
    /\ pc' = "loop"
    /\ UNCHANGED <<image_files, disk, i, df_sorted, parseVars, cropVars, meanVars>>

\* one iteration of: for i, image_path in enumerate(image_files, 1)
LoopBody ==
    /\ pc = "loop" /\ i < Len(image_files)
    /\ LET filename == image_files[i + 1]
           out == process_source(filename, disk[filename], i + 1, Len(image_files))
       IN  /\ results' = results \o out.appended
           /\ log' = log \o out.printed
    /\ i' = i + 1
    /\ UNCHANGED <<image_files, disk, df_sorted, pc, parseVars, cropVars, meanVars>>

\* pd.DataFrame([]) has no columns: sort_values raises KeyError('time_str')
SortRaises ==
    /\ pc = "loop" /\ i = Len(image_files) /\ results = <<>>
    /\ pc' = "raised"
    /\ UNCHANGED <<image_files, disk, i, results, log, df_sorted, parseVars, cropVars, meanVars>>

\* the table is sorted and written, the report printed
Export ==
    /\ pc = "loop" /\ i = Len(image_files) /\ results # <<>>
    /\ df_sorted' = sort_values(results)
    /\ log' = log \o final_report(results, sort_values(results))
    /\ pc' = "done"
    /\ UNCHANGED <<image_files, disk, i, results, parseVars, cropVars, meanVars>>

Next == NoImages \/ Analyze \/ LoopBody \/ SortRaises \/ Export
Spec == Init /\ [][Next]_vars

-----------------------------------------------------------------------------
(* parse_filename on its own                                               *)

Prefixes == {<<"T">>, <<"X">>, <<>>}
TimeRuns == {<<>>, <<"1">>, <<"0", "1">>, <<"2", "3">>}
Tags     == {<<"_", "S", "A", "_">>, <<"_", "C", "t", "r", "_">>,
             <<"_", "s", "a", "_">>, <<"_">>}
Tails    == {<<>>, <<"1">>, <<"1", "_", "3">>, <<"_", "3">>, <<"1", "_">>,
             <<"1", "_", "3", "x">>, <<"1", "2", "_", "0", "4">>}
Exts     == {<<>>, DotTif}

\* the file names parse_filename is given
Identifiers ==
    {p \o t \o g \o l \o e :
        p \in Prefixes, t \in TimeRuns, g \in Tags, l \in Tails, e \in Exts}
    \cup {<<"g", "a", "r", "b", "a", "g", "e", "_", "n", "a", "m", "e">>,
          <<"T", "1", "_", "S", ".", "t", "i", "f", "A", "_", "1", "_", "1">>}

InitParse ==
    /\ pid \in Identifiers /\ pres = Pending /\ pprinted = <<>>
    /\ IdleBatch /\ IdleCrop /\ IdleMean

ParseFilename ==
    /\ pres = Pending
    /\ pres' = parse_filename(pid)
    /\ pprinted' = parse_diag(pid)
    /\ UNCHANGED <<pid, batchVars, cropVars, meanVars>>

NextParse == ParseFilename
SpecParse == InitParse /\ [][NextParse]_vars

-----------------------------------------------------------------------------
(* crop_circle_from_image, run on an image and then on what it wrote       *)

MaxDim    == 5
PixelMod  == 3
MaxPasses == 2

\* the w x h image whose pixel at (x, y) is (a*x + b*y + c) % PixelMod
Pattern(h, w, a, b, c) ==
    [kind |-> "image",
     rows |-> [y1 \in 1..h |-> [x1 \in 1..w |->
                  (a * (x1 - 1) + b * (y1 - 1) + c) % PixelMod]]]

CropInputs ==
    {Pattern(h, w, a, b, c) :
        h \in 1..MaxDim, w \in 1..MaxDim,
        a \in 0..(PixelMod - 1), b \in 0..(PixelMod - 1), c \in 0..(PixelMod - 1)}
    \cup {Undecodable}

InitCrop ==
    /\ corig \in CropInputs /\ cimg = corig
    /\ cout = Pending /\ cfirst = Pending /\ cpass = 0
    /\ IdleBatch /\ IdleParse /\ IdleMean

\* one call; the next call reads the file this one wrote (cv2.imwrite and
\* cv2.imread are taken to store and return the grid unchanged)
CropCircle ==
    /\ cpass < MaxPasses
    /\ LET out == crop_circle_from_image(cimg)
       IN  /\ cout' = out
           /\ cfirst' = IF cpass = 0 THEN out ELSE cfirst
           /\ cimg' = IF out.ok THEN out.written ELSE cimg
    /\ cpass' = cpass + 1
    /\ UNCHANGED <<corig, batchVars, parseVars, meanVars>>

NextCrop == CropCircle
SpecCrop == InitCrop /\ [][NextCrop]_vars

-----------------------------------------------------------------------------
(* calculate_robust_mean, run on an image and on the images got from it by *)
(* adding or removing a zero pixel                                         *)

MaxPixels == 4
MaxValue  == 4

RECURSIVE SeqsUpTo(_, _)
SeqsUpTo(S, n) ==
    IF n = 0 THEN {<<>>}
    ELSE LET shorter == SeqsUpTo(S, n - 1)
         IN  shorter \cup {Append(q, v) : q \in {t \in shorter : Len(t) = n - 1}, v \in S}

MeanInputs ==
    {OneRow(px) : px \in SeqsUpTo(0..MaxValue, MaxPixels) \ {<<>>}} \cup {Undecodable}

InitMean ==
    /\ morig \in MeanInputs /\ mimg = morig /\ mres = Pending /\ mbase = Pending /\ mdiag = <<>>
    /\ IdleBatch /\ IdleParse /\ IdleCrop

RobustMean ==
    /\ mres = Pending
    /\ mres' = calculate_robust_mean(mimg)
    /\ mdiag' = robust_diag(<<>>, mimg)
    /\ mbase' = IF mbase = Pending THEN calculate_robust_mean(mimg) ELSE mbase
    /\ UNCHANGED <<morig, mimg, batchVars, parseVars, cropVars>>

\* a zero pixel is put in at position k
AddZero ==
    /\ mres # Pending /\ mimg # Undecodable
    /\ Len(mimg.rows[1]) < MaxPixels
    /\ \E k \in 0..Len(mimg.rows[1]) :
          mimg' = OneRow(Take(mimg.rows[1], k) \o <<0>> \o Drop(mimg.rows[1], k))
    /\ mres' = Pending
    /\ UNCHANGED <<morig, mbase, mdiag, batchVars, parseVars, cropVars>>

\* the zero pixel at position k is taken out
RemoveZero ==
    /\ mres # Pending /\ mimg # Undecodable
    /\ Len(mimg.rows[1]) > 1
    /\ \E k \in 1..Len(mimg.rows[1]) :
          /\ mimg.rows[1][k] = 0
          /\ mimg' = OneRow(Take(mimg.rows[1], k - 1) \o Drop(mimg.rows[1], k))
    /\ mres' = Pending
    /\ UNCHANGED <<morig, mbase, mdiag, batchVars, parseVars, cropVars>>

NextMean == RobustMean \/ AddZero \/ RemoveZero
SpecMean == InitMean /\ [][NextMean]_vars

-----------------------------------------------------------------------------
(* Claims about parse_filename                                             *)

\* the value of a run of decimal digits, digit by digit
RECURSIVE Pow10(_)
Pow10(k) == IF k = 0 THEN 1 ELSE 10 * Pow10(k - 1)
DecimalValue(s) ==
    Sum([k \in 1..Len(s) |-> DigitValue(s[k]) * Pow10(Len(s) - k)])

AllDigits(s) == Len(s) >= 1 /\ \A k \in 1..Len(s) : IsDigit(s[k])

\* the runs of digits the identifiers are built from
DigitRuns == {r \in TimeRuns \cup Tails : AllDigits(r)} \cup {<<"3">>, <<"0", "4">>}

TreatmentId(t, d, r) == <<"T">> \o t \o <<"_", "S", "A", "_">> \o d \o <<"_">> \o r
ControlId(t, r)      == <<"T">> \o t \o <<"_", "C", "t", "r", "_">> \o r

\* s starts with T<digits>_SA_<digits>_<digits>
StartsAsTreatment(s) ==
    \E a, b, c \in 1..Len(s) :
        /\ a < b /\ b < c
        /\ StartsWith(s, TreatmentId(SubSeq(s, 2, a), SubSeq(s, a + 5, b), SubSeq(s, b + 2, c)))
        /\ AllDigits(SubSeq(s, 2, a)) /\ AllDigits(SubSeq(s, a + 5, b))
        /\ AllDigits(SubSeq(s, b + 2, c))

\* s starts with T<digits>_Ctr_<digits>
StartsAsControl(s) ==
    \E a, b \in 1..Len(s) :
        /\ a < b
        /\ StartsWith(s, ControlId(SubSeq(s, 2, a), SubSeq(s, a + 6, b)))
        /\ AllDigits(SubSeq(s, 2, a)) /\ AllDigits(SubSeq(s, a + 6, b))

HasDot(s) == \E k \in 1..Len(s) : s[k] = "."

Info(t, st, d, r) ==
    [kind |-> "info", time_point |-> t, sample_type |-> st, cfu |-> d, replicate |-> r]

T23_SA_1_3   == <<"T", "2", "3", "_", "S", "A", "_", "1", "_", "3">>
T01_Ctr_1    == <<"T", "0", "1", "_", "C", "t", "r", "_", "1">>
garbage_name == <<"g", "a", "r", "b", "a", "g", "e", "_", "n", "a", "m", "e">>

-----------------------------------------------------------------------------
(* Claims about crop_circle_from_image                                     *)

\* r = min(w//2, h//2, w - w//2, h - h//2)
InscribedRadius(w, h) ==
    LET m == {w \div 2, h \div 2, w - (w \div 2), h - (h \div 2)}
    IN  CHOOSE r \in m : \A q \in m : r <= q

\* the pixel of the input at column x of row y (counted from 0)
PixelAt(img, x, y) == img.rows[y + 1][x + 1]

\* C4: the extractor's output for a w x h image (w, h >= 1) is 2r x 2r with
\* r = min(w//2, h//2, w-w//2, h-h//2); its pixel at (u, v) is the input's
\* pixel at (cx-r+u, cy-r+v), (cx, cy) = (w//2, h//2), when that position is
\* at distance <= r from (cx, cy), and 0 otherwise.
C4_CropGrid ==
    (cpass >= 1 /\ corig # Undecodable) =>
        LET w   == Width(corig.rows)
            h   == Height(corig.rows)
            r   == InscribedRadius(w, h)
            cx  == w \div 2
            cy  == h \div 2
            out == cfirst.written.rows
        IN  /\ cfirst.ok
            /\ Len(out) = 2 * r
            /\ \A v \in 0..(2 * r - 1) :
                  /\ Len(out[v + 1]) = 2 * r
                  /\ \A u \in 0..(2 * r - 1) :
                        LET x == cx - r + u
                            y == cy - r + v
                        IN  out[v + 1][u + 1] =
                              IF (x - cx) * (x - cx) + (y - cy) * (y - cy) <= r * r
                              THEN PixelAt(corig, x, y) ELSE 0

\* an image of odd width and radius 2 has been cropped: a non-zero pixel at
\* distance exactly r was kept and a non-zero pixel outside was zeroed
C4_Witness ==
    /\ cpass = 1 /\ corig # Undecodable
    /\ Width(corig.rows) = 5 /\ Height(corig.rows) = 4
    /\ cfirst.written.rows[1][3] # 0
    /\ PixelAt(corig, 0, 0) # 0 /\ cfirst.written.rows[1][1] = 0

\* C5: the extractor applied to its own output writes a grid identical to
\* that output, in size and in every pixel, whatever the size of the first
\* input (odd widths and heights included).
C5_Idempotent ==
    (cpass >= 2 /\ corig # Undecodable) =>
        /\ cout.ok
        /\ cout.written = cfirst.written

\* the output of an image of odd width and height, holding both kept and
\* zeroed pixels, has been cropped again
C5_Witness ==
    /\ cpass = 2 /\ corig # Undecodable
    /\ Width(corig.rows) = 5 /\ Height(corig.rows) = 5
    /\ Len(cfirst.written.rows) = 4
    /\ cfirst.written.rows[1][3] # 0
    /\ PixelAt(corig, 0, 0) # 0 /\ cfirst.written.rows[1][1] = 0

-----------------------------------------------------------------------------
(* Claims about calculate_robust_mean                                      *)

Pixels(img) == Flatten(img.rows)
NonZero(img) == {k \in 1..Len(Pixels(img)) : Pixels(img)[k] # 0}

\* the k-th smallest (k from 1) of the non-zero pixels
Smallest(img, k) ==
    CHOOSE v \in {Pixels(img)[j] : j \in NonZero(img)} :
        /\ Cardinality({j \in NonZero(img) : Pixels(img)[j] < v}) < k
        /\ Cardinality({j \in NonZero(img) : Pixels(img)[j] <= v}) >= k

\* 4 * (the q-th quartile of the non-zero pixels), interpolated linearly
\* between the order statistics around rank 1 + (n-1)*q/4
Quartile4(img, q) ==
    LET n    == Cardinality(NonZero(img))
        k    == 1 + ((n - 1) * q) \div 4
        part == ((n - 1) * q) % 4
    IN  IF part = 0 THEN 4 * Smallest(img, k)
        ELSE (4 - part) * Smallest(img, k) + part * Smallest(img, k + 1)

\* the positions of the non-zero pixels that lie in [p25, p75]
Kept(img) ==
    {k \in NonZero(img) :
        /\ 4 * Pixels(img)[k] >= Quartile4(img, 1)
        /\ 4 * Pixels(img)[k] <= Quartile4(img, 3)}

\* C6: when the non-zero pixels within [p25, p75] are not empty, the result
\* lies between the least and the greatest of them, and it is the result of
\* the first image, from which the present one differs by zero pixels only.
C6_WithinFiltered ==
    (mres # Pending /\ mimg # Undecodable /\ Kept(mimg) # {}) =>
        /\ mres # None
        /\ \E k \in Kept(mimg) : Pixels(mimg)[k] * mres.den <= mres.num
        /\ \E k \in Kept(mimg) : Pixels(mimg)[k] * mres.den >= mres.num
        /\ mres = mbase

\* a zero pixel was added to an image whose filter drops some non-zero pixel
C6_Witness ==
    /\ mres # Pending
    /\ morig = OneRow(<<1, 2, 4>>) /\ mimg = OneRow(<<1, 0, 2, 4>>)
    /\ Kept(mimg) # {} /\ Kept(mimg) # NonZero(mimg)
    /\ mbase = mres

\* C7: the result is None exactly when every pixel is zero; when the filter
\* leaves no pixel, as for two distinct non-zero values, it is the mean of
\* all non-zero pixels.
C7_NoneIffAllZero ==
    (mres # Pending /\ mimg # Undecodable) =>
        /\ mres = None <=> NonZero(mimg) = {}
        /\ (NonZero(mimg) # {} /\ Kept(mimg) = {}) =>
              /\ mres # None
              /\ mres.num * Cardinality(NonZero(mimg))
                   = mres.den * Sum([k \in 1..Len(Pixels(mimg)) |-> Pixels(mimg)[k]])
        /\ \A a \in 1..MaxValue, b \in 1..MaxValue :
              (a # b /\ mimg = OneRow(<<a, b>>)) =>
                  /\ Kept(mimg) = {}
                  /\ mres # None /\ mres.num * 2 = mres.den * (a + b)

\* the filter left nothing of two distinct values and the mean of both came back
C7_Witness ==
    /\ mimg = OneRow(<<1, 4>>) /\ mres = [kind |-> "value", num |-> 5, den |-> 2]
    /\ Len(mdiag) = 1 /\ mdiag[1].msg = "No pixels left after filtering"

-----------------------------------------------------------------------------
(* Claims about process_circle_images                                      *)

\* the identifier of a file name: the name without its extension
Identifier(f) == Take(f, Len(f) - Len(DotTif))

\* the file names whose identifier starts as one of the two grammars
RecognizedNames ==
    {f \in FileNames : StartsAsTreatment(Identifier(f)) \/ StartsAsControl(Identifier(f))}

\* the source parses and yields an intensity
Processable(f) ==
    /\ f \in RecognizedNames
    /\ disk[f] # Undecodable
    /\ NonZero(disk[f]) # {}

FileNamesOf(rows) == [k \in 1..Len(rows) |-> rows[k].filename]

\* C1: a source that does not parse, does not decode or has no valid pixel
\* is skipped and the loop goes on: after i iterations `results` holds, in
\* processing order, one record for each processable source among the first
\* i and nothing else, the exported table holds those of the whole
\* collection, and the run raises only when no source is processable.
C1_PartialFailureIsolation ==
    /\ pc \in {"loop", "done", "raised"} =>
          FileNamesOf(results) = SelectSeq(Take(image_files, i), Processable)
    /\ pc = "done" =>
          /\ i = Len(image_files)
          /\ Len(df_sorted) = Cardinality({f \in Range(image_files) : Processable(f)})
          /\ Range(FileNamesOf(df_sorted)) = {f \in Range(image_files) : Processable(f)}
    /\ pc = "raised" => \A f \in Range(image_files) : ~Processable(f)

\* a run finished whose first source does not parse and whose last one has
\* no valid pixel or does not decode, around a source that is recorded
C1_Witness ==
    /\ pc = "done" /\ Len(image_files) = 3 /\ Len(results) = 1
    /\ image_files[1] = garbage_tif
    /\ results[1].filename = image_files[2]
    /\ disk[image_files[3]] \in {Undecodable, OneRow(<<0, 0>>)}

\* s <= t in the lexicographic order of the code points
StrLeq(s, t) ==
    \/ s = t
    \/ \E k \in 1..(Len(t)) :
          /\ Take(s, k - 1) = Take(t, k - 1) /\ Len(s) >= k - 1
          /\ Len(s) = k - 1 \/ (Len(s) >= k /\ Ord(s[k]) < Ord(t[k]))

KeyOf(row) == <<row.time_str, row.sample_type, row.cfu, row.replicate>>

\* a <= b under (time_label, sample_type, dose, replicate)
KeyLeq(a, b) ==
    \/ a.time_str # b.time_str /\ StrLeq(a.time_str, b.time_str)
    \/ /\ a.time_str = b.time_str
       /\ \/ a.sample_type # b.sample_type /\ StrLeq(a.sample_type, b.sample_type)
          \/ /\ a.sample_type = b.sample_type
             /\ \/ a.cfu < b.cfu
                \/ a.cfu = b.cfu /\ a.replicate <= b.replicate

TenOClock == <<"1", "0", ":", "0", "0">>
HalfPastOne == <<"1", ":", "3", "0">>

Orders(files) ==
    {[k \in 1..Len(files) |-> files[f[k]]] : f \in Permutations(1..Len(files))}

\* `results` when the loop has run over the first k of files
RECURSIVE ResultsUpTo(_, _)
ResultsUpTo(files, k) ==
    IF k = 0 THEN <<>>
    ELSE ResultsUpTo(files, k - 1)
         \o process_source(files[k], disk[files[k]], k, Len(files)).appended

\* `results` when the loop has run over files
ResultsOf(files) == ResultsUpTo(files, Len(files))

\* the table exported when the files are processed in the order given
ExportOf(files) == sort_values(ResultsOf(files))

\* C3 as claimed: every processing order of the same sources exports the
\* same sequence of rows, also when two sources share a key.
C3_AnyOrderSameExport ==
    pc = "done" => \A p \in Orders(image_files) : ExportOf(p) = df_sorted

PositionIn(files, f) == CHOOSE k \in 1..Len(files) : files[k] = f

\* C3 as amended: every processing order exports the same rows with the
\* same sequence of keys; the sequences of rows are the same when no two
\* rows share a key, and rows that share a key stand in processing order.
C3_SameExportUpToTies ==
    pc = "done" =>
        /\ \A p \in Orders(image_files) :
              LET e == ExportOf(p)
              IN  /\ Len(e) = Len(df_sorted)
                  /\ Range(e) = Range(df_sorted)
                  /\ \A k \in 1..Len(e) : KeyOf(e[k]) = KeyOf(df_sorted[k])
                  /\ (\A a \in 1..Len(e), b \in 1..Len(e) :
                         a # b => KeyOf(df_sorted[a]) # KeyOf(df_sorted[b]))
                       => e = df_sorted
        /\ \A a \in 1..Len(df_sorted), b \in 1..Len(df_sorted) :
              (a < b /\ KeyOf(df_sorted[a]) = KeyOf(df_sorted[b])) =>
                  PositionIn(image_files, df_sorted[a].filename)
                    < PositionIn(image_files, df_sorted[b].filename)

\* two sources of one key and different intensities were exported, the one
\* processed first standing first although its name is the greater
C3_Witness ==
    /\ pc = "done" /\ Len(df_sorted) = 3
    /\ df_sorted[2].filename = T4_SA_1_1_tif /\ df_sorted[3].filename = T04_SA_1_1_tif
    /\ df_sorted[2].mean_intensity # df_sorted[3].mean_intensity

MaxTimePoint == 48

\* the time point written in a file name: the digits between T and _
TimePointOf(f) ==
    LET a == CHOOSE k \in 2..Len(f) : AllDigits(SubSeq(f, 2, k)) /\ f[k + 1] = "_"
    IN  DecimalValue(SubSeq(f, 2, a))

\* label reads H:MM, H without leading zero and MM of two digits, and
\* 60 * H + MM minutes are the (tp - 1) half hours
IsLabelOf(label, tp) ==
    \E c \in 2..(Len(label) - 1) :
        LET hh == SubSeq(label, 1, c - 1)
            mm == SubSeq(label, c + 1, Len(label))
        IN  /\ label[c] = ":"
            /\ AllDigits(hh) /\ (Len(hh) = 1 \/ hh[1] # "0")
            /\ Len(mm) = 2 /\ AllDigits(mm)
            /\ DecimalValue(hh) = ((tp - 1) * 30) \div 60
            /\ DecimalValue(mm) = ((tp - 1) * 30) % 60

\* every time point up to MaxTimePoint gets its label, and the three time
\* points of the specification the labels it lists
LabelsOfTimePoints ==
    /\ \A tp \in 1..MaxTimePoint : IsLabelOf(time_point_to_string(tp), tp)
    /\ time_point_to_string(1) = <<"0", ":", "0", "0">>
    /\ time_point_to_string(3) = <<"1", ":", "0", "0">>
    /\ time_point_to_string(4) = <<"1", ":", "3", "0">>

\* C9: for every time point >= 1 the label is H:MM with H the whole hours
\* of (time_point - 1) * 30 minutes, not padded, and MM the remaining
\* minutes on two digits (1 gives 0:00, 3 gives 1:00, 4 gives 1:30), and
\* every record of the Dataset carries the label of its parsed time point.
C9_TimeLabel ==
    /\ \A k \in 1..Len(results) :
          IsLabelOf(results[k].time_str, TimePointOf(results[k].filename))
    /\ \A k \in 1..Len(df_sorted) :
          IsLabelOf(df_sorted[k].time_str, TimePointOf(df_sorted[k].filename))
    /\ LabelsOfTimePoints

\* records of the time points 4 and 21 were made and exported
C9_Witness ==
    /\ pc = "done" /\ Len(df_sorted) = 2
    /\ df_sorted[1].filename = T21_Ctr_1_tif /\ df_sorted[1].time_str = TenOClock
    /\ df_sorted[2].filename = T04_SA_1_1_tif /\ df_sorted[2].time_str = HalfPastOne

SkipReasons ==
    {"Could not recognize filename pattern", "Could not load image", "No valid pixels found"}

\* the positions of the log that hold a skip diagnostic
SkipDiagnostics == {k \in 1..Len(log) : log[k].msg \in SkipReasons}

\* the reason for which a source that is not processable is skipped
ReasonOf(f) ==
    IF f \notin RecognizedNames
    THEN "Could not recognize filename pattern"
    ELSE IF disk[f] = Undecodable THEN "Could not load image"
    ELSE "No valid pixels found"

\* one diagnostic, naming the source and the reason, for each source skipped
\* so far, and none for a source that was recorded
SkipsLogged ==
    pc \in {"loop", "done", "raised"} =>
        /\ Cardinality(SkipDiagnostics) = i - Len(results)
        /\ \A n \in 1..i :
              LET f == image_files[n]
                  named == {k \in SkipDiagnostics : log[k].file = f}
              IN  IF Processable(f) THEN named = {}
                  ELSE /\ Cardinality(named) = 1
                       /\ \A k \in named : log[k].msg = ReasonOf(f)

Reports(msg, n) == \E k \in 1..Len(log) : log[k].msg = msg /\ log[k].n = n

\* C10 as claimed: as many skip diagnostics as sources left out, one for
\* each, none for a recorded source, and at the end a report of the
\* processed count and of the skipped count, which add up to the sources.
C10_SkipsLoggedAndCounted ==
    /\ SkipsLogged
    /\ pc = "done" =>
          /\ Reports("Processed images", Len(results))
          /\ \E k \in 1..Len(log) :
                /\ log[k].msg \notin SkipReasons \cup {"Processed images", "CSV file size", "Analyzing"}
                /\ "n" \in DOMAIN log[k]
                /\ log[k].n = Len(image_files) - Len(results)

\* C10 as amended: as many skip diagnostics as sources left out, one for
\* each, none for a recorded source; a run that exports reports at its
\* start the number of sources and at its end the processed count, which is
\* the number of rows written, and no other count: the skipped count is
\* the difference of the two and the number of skip diagnostics.
C10_SkipsLoggedProcessedCounted ==
    /\ SkipsLogged
    /\ pc = "done" =>
          /\ log[1] = [msg |-> "Analyzing", n |-> Len(image_files)]
          /\ Reports("Processed images", Len(results))
          /\ Reports("CSV file size", Len(df_sorted))
          /\ Len(df_sorted) = Len(results)
          /\ Cardinality(SkipDiagnostics) = Len(image_files) - Len(results)
          /\ \A k \in 1..Len(log) :
                "n" \in DOMAIN log[k] =>
                    log[k].msg \in {"Analyzing", "Processed images", "CSV file size", "Progress"}

\* a run ended that skipped an unrecognized name and an image without valid
\* pixels and recorded a source whose filter left nothing
C10_Witness ==
    /\ pc = "done" /\ Len(image_files) = 3 /\ Len(results) = 1
    /\ Cardinality(SkipDiagnostics) = 2
    /\ \E k \in 1..Len(log) : log[k].msg = "Could not recognize filename pattern"
    /\ \E k \in 1..Len(log) : log[k].msg = "No valid pixels found"
    /\ \E k \in 1..Len(log) : log[k].msg = "No pixels left after filtering"

====
